---- MODULE Spec2Model ----
(***************************************************************************)
(* State-machine model of the DMG-01 CPU core of src/src/main.rs: the      *)
(* register file with its virtual 16-bit pairs, the packed flags register, *)
(* the memory bus and CPU::execute with its two ALU helpers, add and       *)
(* addhl.  Integers keep their Rust widths: u8 values live in 0..255 and   *)
(* u16 values in 0..65535, and every cast, mask and shift is computed.     *)
(***************************************************************************)
EXTENDS Integers, FiniteSets

VARIABLES
    registers,  \* CPU.registers: a, b, c, d, e, f (FlagsRegister), h, l, sp
    pc,         \* CPU.pc
    bus,        \* CPU.bus: the MemoryBus
    status,     \* "running", or "panicked" once an operation has panicked
    ret,        \* the value the last operation returned (read_byte), else 0
    instr,      \* the operation performed by the last step
    old,        \* registers, pc and bus as they were before the last step
    start,      \* registers, pc and bus as they were constructed
    ops,        \* the names of the operations performed so far
    steps       \* the number of operations performed so far

vars == <<registers, pc, bus, status, ret, instr, old, start, ops, steps>>

----------------------------------------------------------------------------
(* Bounds of the exploration.                                              *)

\* The number of operations one behaviour performs.
MaxSteps == 2

----------------------------------------------------------------------------
(* Program constants.                                                      *)

ZERO_FLAG_BYTE_POSITION == 7
SUBTRACT_FLAG_BYTE_POSITION == 6
HALF_CARRY_FLAG_BYTE_POSITION == 5
CARRY_FLAG_BYTE_POSITION == 4

\* The length of MemoryBus.memory, [u8; 0xFFFF].
MEMORY_LEN == 65535

----------------------------------------------------------------------------
(* Fixed-width integer arithmetic, as Rust computes it on u8 and u16.      *)

U8 == 256
U16 == 65536

RECURSIVE BitAnd(_, _)
BitAnd(x, y) ==
    IF x = 0 \/ y = 0 THEN 0
    ELSE (x % 2) * (y % 2) + 2 * BitAnd(x \div 2, y \div 2)

RECURSIVE BitOr(_, _)
BitOr(x, y) ==
    IF x = 0 THEN y
    ELSE IF y = 0 THEN x
    ELSE (IF x % 2 = 1 \/ y % 2 = 1 THEN 1 ELSE 0)
         + 2 * BitOr(x \div 2, y \div 2)

\* x << n in an integer type of the given modulus: the bits shifted out are lost.
Shl(x, n, modulus) == (x * (2 ^ n)) % modulus

\* x >> n on an unsigned integer.
Shr(x, n) == x \div (2 ^ n)

\* x as u8.
AsU8(x) == x % U8

\* x.overflowing_add(y) on an unsigned type of the given modulus.
overflowing_add(x, y, modulus) ==
    [value |-> (x + y) % modulus, overflow |-> x + y >= modulus]

----------------------------------------------------------------------------
(* FlagsRegister and its conversions.                                      *)

Bit(flag) == IF flag THEN 1 ELSE 0

\* impl From<&FlagsRegister> for u8
to_byte(flag) ==
    BitOr(BitOr(BitOr(Shl(Bit(flag.zero), ZERO_FLAG_BYTE_POSITION, U8),
                      Shl(Bit(flag.subtract), SUBTRACT_FLAG_BYTE_POSITION, U8)),
                Shl(Bit(flag.half_carry), HALF_CARRY_FLAG_BYTE_POSITION, U8)),
          Shl(Bit(flag.carry), CARRY_FLAG_BYTE_POSITION, U8))

\* impl From<u8> for FlagsRegister
from_byte(byte) ==
    [zero       |-> Shr(BitAnd(byte, 255), ZERO_FLAG_BYTE_POSITION) # 0,
     subtract   |-> Shr(BitAnd(byte, 255), SUBTRACT_FLAG_BYTE_POSITION) # 0,
     half_carry |-> Shr(BitAnd(byte, 255), HALF_CARRY_FLAG_BYTE_POSITION) # 1,
     carry      |-> Shr(BitAnd(byte, 255), CARRY_FLAG_BYTE_POSITION) # 0]

----------------------------------------------------------------------------
(* Registers: the virtual 16-bit pairs.                                    *)

\* set_bc with the two bytes exchanged (a little-endian pair).
set_bc_swapped(r, value) ==
    [r EXCEPT !.c = AsU8(Shr(BitAnd(value, 65280), 8)),
              !.b = AsU8(BitAnd(value, 255))]

get_bc(r) == BitOr(Shl(r.b, 8, U16), r.c)

set_bc(r, value) ==
    [r EXCEPT !.b = AsU8(Shr(BitAnd(value, 65280), 8)),
              !.c = AsU8(BitAnd(value, 255))]

get_af(r) == BitOr(Shl(r.a, 8, U16), to_byte(r.f))

set_af(r, value) ==
    [r EXCEPT !.a = AsU8(Shr(BitAnd(value, 65280), 8)),
              !.f = from_byte(AsU8(BitAnd(value, 255)))]

get_de(r) == BitOr(Shl(r.d, 8, U16), r.e)

set_de(r, value) ==
    [r EXCEPT !.d = AsU8(Shr(BitAnd(value, 65280), 8)),
              !.e = AsU8(BitAnd(value, 255))]

get_hl(r) == BitOr(Shl(r.h, 8, U16), r.l)

set_hl(r, value) ==
    [r EXCEPT !.h = AsU8(Shr(BitAnd(value, 65280), 8)),
              !.l = AsU8(BitAnd(value, 255))]

----------------------------------------------------------------------------
(* MemoryBus.                                                              *)

\* Whether memory[address as usize] is inside the array.
InBounds(b, address) == address < b.len

\* MemoryBus::read_byte on an address inside the array.
read_byte(b, address) == b.fill

----------------------------------------------------------------------------
(* CPU: the ALU helpers and execute.                                       *)

\* add with the half carry taken from the sum instead of the old a.
add_stale(r, value) ==
    LET sum == overflowing_add(r.a, value, U8)
    IN  [regs |-> [r EXCEPT !.f = [zero       |-> sum.value = 0,
                                   subtract   |-> FALSE,
                                   carry      |-> sum.overflow,
                                   half_carry |-> BitAnd(sum.value, 15) + BitAnd(value, 15) > 15]],
         new_value |-> sum.value]

\* CPU::add: the flags are written into the register file, the sum is returned.
add(r, value) ==
    LET sum == overflowing_add(r.a, value, U8)
    IN  [regs |-> [r EXCEPT !.f = [zero       |-> sum.value = 0,
                                   subtract   |-> FALSE,
                                   carry      |-> sum.overflow,
                                   half_carry |-> BitAnd(r.a, 15) + BitAnd(value, 15) > 15]],
         new_value |-> sum.value]

\* addhl with the carry tested on the wrapped sum.
addhl_nocarry(r, value) ==
    LET sum == overflowing_add(get_hl(r), value, U16)
    IN  [regs |-> [r EXCEPT !.f.subtract   = FALSE,
                            !.f.carry      = sum.value > 65535,
                            !.f.half_carry = BitAnd(get_hl(r), 15) + BitAnd(value, 15) > 15],
         new_value |-> sum.value]

\* addhl that also assigns the zero flag, as the 8-bit add does.
addhl_zero(r, value) ==
    LET sum == overflowing_add(get_hl(r), value, U16)
    IN  [regs |-> [r EXCEPT !.f.zero       = (sum.value = 0),
                            !.f.subtract   = FALSE,
                            !.f.carry      = sum.overflow,
                            !.f.half_carry = BitAnd(get_hl(r), 15) + BitAnd(value, 15) > 15],
         new_value |-> sum.value]

\* CPU::addhl: the zero flag is not assigned.
addhl(r, value) ==
    LET sum == overflowing_add(get_hl(r), value, U16)
    IN  [regs |-> [r EXCEPT !.f.subtract   = FALSE,
                            !.f.carry      = sum.overflow,
                            !.f.half_carry = BitAnd(get_hl(r), 15) + BitAnd(value, 15) > 15],
         new_value |-> sum.value]

\* The targets the ADD arm of execute matches.
ADDTargets == {"A", "B", "C", "D", "E", "H", "L"}

\* The targets the ADDHL arm of execute matches.
ADDHLTargets == {"BC", "DE", "HL", "SP"}

\* The `let value = ...` of each arm of the ADD match.
ADDValue(r, target) ==
    CASE target = "A" -> r.a
      [] target = "B" -> r.b
      [] target = "C" -> r.c
      [] target = "D" -> r.d
      [] target = "E" -> r.e
      [] target = "H" -> r.h
      [] target = "L" -> r.l

\* The `let value = ...` of each arm of the ADDHL match.
ADDHLValue(r, target) ==
    CASE target = "BC" -> get_bc(r)
      [] target = "DE" -> get_de(r)
      [] target = "HL" -> get_hl(r)
      [] target = "SP" -> r.sp

\* The ADD arms with the C arm storing the sum into c as well.
execute_ADD_clobber(r, target) ==
    LET res == add(r, ADDValue(r, target))
    IN  IF target = "C"
        THEN [res.regs EXCEPT !.a = res.new_value, !.c = res.new_value]
        ELSE [res.regs EXCEPT !.a = res.new_value]

\* Instruction::ADD(target) => { value; new_value = self.add(value); a = new_value }
execute_ADD(r, target) ==
    LET res == add(r, ADDValue(r, target))
    IN  [res.regs EXCEPT !.a = res.new_value]

\* Instruction::ADDHL(target) => { value; new_value = self.addhl(value); set_hl(new_value) }
execute_ADDHL(r, target) ==
    LET res == addhl(r, ADDHLValue(r, target))
    IN  set_hl(res.regs, res.new_value)

\* CPU::execute on the whole CPU: registers, pc and bus after the instruction.
execute(cpu, op, target) ==
    [registers |-> IF op = "ADD" THEN execute_ADD(cpu.registers, target)
                   ELSE execute_ADDHL(cpu.registers, target),
     pc        |-> cpu.pc,
     bus       |-> cpu.bus]

----------------------------------------------------------------------------
(* The values the exploration draws from.                                  *)

InitA == {0, 15, 128, 255}
InitHL == {0, 15, 3840, 65535}
InitF == {[zero |-> z, subtract |-> z, half_carry |-> z, carry |-> z] : z \in BOOLEAN}
InitPC == {0, 65535}
SetVals == {0, 4660, 65280}
AFVals == {0, 15, 16, 32, 64, 128, 65520}
Addresses == {0, 65534, 65535}

Snapshot == [registers |-> registers, pc |-> pc, bus |-> bus]

----------------------------------------------------------------------------
(* The state machine.                                                      *)

Init ==
    /\ \E a0 \in InitA, hl0 \in InitHL, f0 \in InitF :
          registers = set_hl([a |-> a0, b |-> 0, c |-> 1, d |-> 1, e |-> 0,
                              f |-> f0, h |-> 0, l |-> 0, sp |-> 65535], hl0)
    /\ pc \in InitPC
    /\ bus = [len |-> MEMORY_LEN, fill |-> 0]
    /\ status = "running"
    /\ ret = 0
    /\ instr = [op |-> "none", target |-> "-", value |-> 0]
    /\ old = [registers |-> registers, pc |-> pc, bus |-> bus]
    /\ start = [registers |-> registers, pc |-> pc, bus |-> bus]
    /\ ops = {}
    /\ steps = 0

\* The bookkeeping every step shares.
Record(op, target, value) ==
    /\ status = "running"
    /\ steps < MaxSteps
    /\ steps' = steps + 1
    /\ instr' = [op |-> op, target |-> target, value |-> value]
    /\ old' = Snapshot
    /\ ops' = ops \cup {op}
    /\ start' = start

\* cpu.execute(Instruction::ADD(target))
ExecuteADD ==
    \E target \in ADDTargets :
        LET cpu == execute(Snapshot, "ADD", target)
        IN  /\ Record("ADD", target, 0)
            /\ registers' = cpu.registers
            /\ pc' = cpu.pc
            /\ bus' = cpu.bus
            /\ UNCHANGED <<status, ret>>

\* cpu.execute(Instruction::ADDHL(target))
ExecuteADDHL ==
    \E target \in ADDHLTargets :
        LET cpu == execute(Snapshot, "ADDHL", target)
        IN  /\ Record("ADDHL", target, 0)
            /\ registers' = cpu.registers
            /\ pc' = cpu.pc
            /\ bus' = cpu.bus
            /\ UNCHANGED <<status, ret>>

\* cpu.registers.set_bc(value)
SetBC ==
    \E value \in SetVals :
        /\ Record("set_bc", "BC", value)
        /\ registers' = set_bc(registers, value)
        /\ UNCHANGED <<pc, bus, status, ret>>

\* cpu.registers.set_de(value)
SetDE ==
    \E value \in SetVals :
        /\ Record("set_de", "DE", value)
        /\ registers' = set_de(registers, value)
        /\ UNCHANGED <<pc, bus, status, ret>>

\* cpu.registers.set_hl(value)
SetHL ==
    \E value \in SetVals :
        /\ Record("set_hl", "HL", value)
        /\ registers' = set_hl(registers, value)
        /\ UNCHANGED <<pc, bus, status, ret>>

\* cpu.registers.set_af(value); the value just read with get_af is one of the inputs.
SetAF ==
    \E value \in AFVals \cup {get_af(registers)} :
        /\ Record("set_af", "AF", value)
        /\ registers' = set_af(registers, value)
        /\ UNCHANGED <<pc, bus, status, ret>>

\* cpu.bus.read_byte(address): an index outside the array panics.
ReadByte ==
    \E address \in Addresses :
        /\ Record("read_byte", "-", address)
        /\ IF InBounds(bus, address)
           THEN /\ ret' = read_byte(bus, address)
                /\ status' = status
           ELSE /\ ret' = ret
                /\ status' = "panicked"
        /\ UNCHANGED <<registers, pc, bus>>

Next ==
    \/ ExecuteADD
    \/ ExecuteADDHL
    \/ SetBC
    \/ SetDE
    \/ SetHL
    \/ SetAF
    \/ ReadByte

Spec == Init /\ [][Next]_vars

----------------------------------------------------------------------------
(* The claims, read on the last step: `old` is the state before it.        *)

\* The 8-bit cell an ADD target names.
Cell(r, t) ==
    CASE t = "A" -> r.a [] t = "B" -> r.b [] t = "C" -> r.c [] t = "D" -> r.d
      [] t = "E" -> r.e [] t = "H" -> r.h [] t = "L" -> r.l

\* The big-endian value of the pair an ADDHL target names.
Pair(r, t) ==
    CASE t = "BC" -> r.b * 256 + r.c
      [] t = "DE" -> r.d * 256 + r.e
      [] t = "HL" -> r.h * 256 + r.l
      [] t = "SP" -> r.sp

\* Bit n of a byte, as a boolean.
BitSet(byte, n) == (byte \div (2 ^ n)) % 2 = 1

\* C1: ADD(t) leaves a = (a_old + v) mod 256 with zero = (a = 0), subtract
\* false, carry = (a_old + v > 0xFF) and half_carry = ((a_old & 0xF) +
\* (v & 0xF) > 0xF), all from the a before the instruction; 0xFF + 0x01 gives
\* 0x00 with zero, carry and half_carry, 0x0F + 0x01 gives 0x10 with half_carry
\* and no carry.
C1_Add ==
    instr.op = "ADD" =>
        LET a_old == old.registers.a
            v     == Cell(old.registers, instr.target)
            f     == registers.f
        IN  /\ registers.a = (a_old + v) % 256
            /\ f.zero = (registers.a = 0)
            /\ f.subtract = FALSE
            /\ f.carry = (a_old + v > 255)
            /\ f.half_carry = ((a_old % 16) + (v % 16) > 15)
            /\ (a_old = 255 /\ v = 1) =>
                   (registers.a = 0 /\ f.zero /\ f.carry /\ f.half_carry)
            /\ (a_old = 15 /\ v = 1) =>
                   (registers.a = 16 /\ f.half_carry /\ ~f.carry)

C1_Witness ==
    /\ instr.op = "ADD"
    /\ instr.target = "C"
    /\ old.registers.a = 255
    /\ old.registers.c = 1
    /\ registers.a = 0
    /\ registers.f = [zero |-> TRUE, subtract |-> FALSE,
                      half_carry |-> TRUE, carry |-> TRUE]

\* C2: converting the four flags to a byte and the byte back yields the same
\* four flags (set_af of the value get_af just returned leaves f as it was).
C2_RoundTrip ==
    (instr.op = "set_af" /\ instr.value = get_af(old.registers)) =>
        registers.f = old.registers.f

\* C3: read_byte never fails: every 16-bit address, 0xFFFF included, returns
\* the stored byte.
C3_ReadNeverFails ==
    instr.op = "read_byte" => (status = "running" /\ ret = old.bus.fill)

\* C4: ADDHL sets half_carry exactly on a carry out of bit 11:
\* (hl_old & 0x0FFF) + (v & 0x0FFF) > 0x0FFF.
C4_HalfCarryBit11 ==
    instr.op = "ADDHL" =>
        registers.f.half_carry =
            ((Pair(old.registers, "HL") % 4096)
             + (Pair(old.registers, instr.target) % 4096) > 4095)

\* C5: ADDHL(t) leaves hl = (hl_old + v) mod 65536 with carry = (hl_old + v >
\* 0xFFFF) and subtract false, and does not fail on overflow; 0xFFFF + 0x0001
\* gives 0x0000 with carry.
C5_AddHL ==
    instr.op = "ADDHL" =>
        LET hl_old == Pair(old.registers, "HL")
            v      == Pair(old.registers, instr.target)
        IN  /\ status = "running"
            /\ get_hl(registers) = (hl_old + v) % 65536
            /\ registers.f.carry = (hl_old + v > 65535)
            /\ registers.f.subtract = FALSE
            /\ (hl_old = 65535 /\ v = 1) =>
                   (get_hl(registers) = 0 /\ registers.f.carry)

C5_Witness ==
    /\ instr.op = "ADDHL"
    /\ instr.target = "BC"
    /\ Pair(old.registers, "HL") = 65535
    /\ Pair(old.registers, "BC") = 1
    /\ registers.h = 0
    /\ registers.l = 0
    /\ registers.f.carry
    /\ status = "running"

\* C6: every executed instruction advances pc by the bytes consumed, one for
\* an unprefixed instruction; n instructions from p leave pc = (p + n) mod 65536.
C6_PcAdvances ==
    /\ instr.op \in {"ADD", "ADDHL"} => pc = (old.pc + 1) % 65536
    /\ ops \subseteq {"ADD", "ADDHL"} => pc = (start.pc + steps) % 65536

\* C7: set_XY(v) leaves v >> 8 in the high cell and v & 0xFF in the low cell,
\* get_XY() then returns v, get_XY() is always (high << 8) | low, and set_XY
\* changes no other register.
C7_Pairs ==
    /\ get_bc(registers) = registers.b * 256 + registers.c
    /\ get_de(registers) = registers.d * 256 + registers.e
    /\ get_hl(registers) = registers.h * 256 + registers.l
    /\ instr.op = "set_bc" =>
          /\ registers.b = instr.value \div 256
          /\ registers.c = instr.value % 256
          /\ get_bc(registers) = instr.value
          /\ registers = [old.registers EXCEPT !.b = registers.b, !.c = registers.c]
    /\ instr.op = "set_de" =>
          /\ registers.d = instr.value \div 256
          /\ registers.e = instr.value % 256
          /\ get_de(registers) = instr.value
          /\ registers = [old.registers EXCEPT !.d = registers.d, !.e = registers.e]
    /\ instr.op = "set_hl" =>
          /\ registers.h = instr.value \div 256
          /\ registers.l = instr.value % 256
          /\ get_hl(registers) = instr.value
          /\ registers = [old.registers EXCEPT !.h = registers.h, !.l = registers.l]

C7_Witness ==
    /\ instr.op = "set_bc"
    /\ instr.value = 4660
    /\ old.registers.b = 0
    /\ old.registers.c = 1
    /\ registers.b = 18
    /\ registers.c = 52
    /\ "set_de" \in ops

\* C8: from_byte takes each flag from its own bit alone: zero = bit 7,
\* subtract = bit 6, half_carry = bit 5, carry = bit 4; bits 0-3 are ignored.
C8_FromByteBits ==
    instr.op = "set_af" =>
        LET byte == instr.value % 256
        IN  registers.f = [zero       |-> BitSet(byte, 7),
                           subtract   |-> BitSet(byte, 6),
                           half_carry |-> BitSet(byte, 5),
                           carry      |-> BitSet(byte, 4)]

\* C9: ADDHL leaves the zero flag as it was, also when the 16-bit result is 0,
\* so after any sequence of ADDHL instructions zero has its initial value.
C9_ZeroUntouched ==
    /\ instr.op = "ADDHL" => registers.f.zero = old.registers.f.zero
    /\ (ops = {"ADDHL"}) => registers.f.zero = start.registers.f.zero

C9_Witness ==
    /\ instr.op = "ADDHL"
    /\ ops = {"ADDHL"}
    /\ steps = 2
    /\ get_hl(start.registers) # 0
    /\ get_hl(registers) = 0
    /\ ~registers.f.zero

\* C10: ADD(t) changes only a and the flags; ADDHL(t) changes only h, l and
\* the flags; sp, pc, memory and every other register are left as they were.
C10_Frame ==
    /\ instr.op = "ADD" =>
          /\ registers = [old.registers EXCEPT !.a = registers.a, !.f = registers.f]
          /\ pc = old.pc
          /\ bus = old.bus
    /\ instr.op = "ADDHL" =>
          /\ registers = [old.registers EXCEPT !.h = registers.h, !.l = registers.l,
                                               !.f = registers.f]
          /\ pc = old.pc
          /\ bus = old.bus

C10_Witness ==
    /\ instr.op = "ADDHL"
    /\ ops = {"ADD", "ADDHL"}
    /\ registers.a # start.registers.a
    /\ get_hl(registers) # get_hl(old.registers)
    /\ registers.f # old.registers.f
    /\ registers.c = 1

====
